---------------------------- MODULE Spec2Model ----------------------------
(* Model of the Ollama-shaped proxy in front of an OpenAI-compatible       *)
(* provider: the model registry of OpenrouterProvider (provider.go) and    *)
(* the HTTP handlers of main (main.go): GET /api/tags and POST /api/chat   *)
(* in its non-streaming and streaming forms.                               *)
(*                                                                         *)
(* Strings that the code takes apart (model identifiers, aliases, filter   *)
(* lines) are sequences of one-character strings, so that suffix tests and *)
(* the split on "/" are computed.  Strings that the code only copies and   *)
(* compares (delta content, finish reasons) are TLA+ strings.  Time stamps *)
(* (created_at, modified_at) and the text of upstream errors are left out. *)
(*                                                                         *)
(* Requests are served one after the other here: one handler runs from its *)
(* entry to its response before the next one starts, except that a         *)
(* streaming exchange takes one step per provider event and one for the    *)
(* handler's return.  A second specification, SpecRace, runs a refresh and *)
(* a resolution of two requests side by side, one memory access at a time. *)
EXTENDS Naturals, Sequences, FiniteSets

(***************************************************************************)
(* Bounds of the model.                                                    *)
(***************************************************************************)
MaxModels == 2      \* longest model list the provider returns
MaxEvents == 3      \* most events the provider sends on one stream

(***************************************************************************)
(* Identifiers, aliases and filters the inputs are drawn from.             *)
(***************************************************************************)
IdA  == <<"a">>
IdXA == <<"x", "/", "a">>
IdYA == <<"y", "/", "a">>
IdYB == <<"y", "/", "b">>
ModelIds == {IdA, IdXA, IdYA, IdYB}

Aliases == { IdA, IdXA, <<>>, <<"/", "a">>, <<"b">>, <<"c">> }

FilterSets == { {}, {IdA, IdXA} }

SeqsUpTo(S, n) == UNION { [1..k -> S] : k \in 0..n }

\* What the provider's model-listing endpoint can answer: an error, or an
\* ordered list of model identifiers.
ListResults ==
    { [err |-> TRUE, models |-> <<>>] }
        \cup { [err |-> FALSE, models |-> ms] : ms \in SeqsUpTo(ModelIds, MaxModels) }

\* The answer recorded for a request that did not call the listing endpoint.
NoList == [err |-> FALSE, models |-> << <<"not called">> >>]

\* The answers a resolution can get: it calls the listing endpoint only when
\* it finds the registry empty.
ListAnswers(names) == IF Len(names) = 0 THEN ListResults ELSE {NoList}

(***************************************************************************)
(* String helpers.                                                         *)
(***************************************************************************)
\* strings.HasSuffix(s, suffix)
HasSuffix(s, suffix) ==
    /\ Len(suffix) <= Len(s)
    /\ SubSeq(s, Len(s) - Len(suffix) + 1, Len(s)) = suffix

\* parts := strings.Split(id, "/"); parts[len(parts)-1]
LastSegment(id) ==
    LET slashes == { i \in 1..Len(id) : id[i] = "/" }
        last    == IF slashes = {} THEN 0
                   ELSE CHOOSE i \in slashes : \A j \in slashes : j <= i
    IN  SubSeq(id, last + 1, Len(id))

\* The smallest of a set of indices (0 when it is empty): where a for-range
\* loop that returns at its first hit stops.
FirstIndex(hits) ==
    IF hits = {} THEN 0
    ELSE CHOOSE i \in hits : \A j \in hits : i <= j

(***************************************************************************)
(* The process's memory: the provider object's registry and the global     *)
(* filter.                                                                 *)
(***************************************************************************)
VARIABLES
    modelNames,         \* OpenrouterProvider.modelNames, the registry
    modelFilter,        \* the global modelFilter, loaded at startup
    call,               \* the request being served or served last, and what
                        \* its resolution did (inputs and results, for the
                        \* properties)
    resp,               \* the HTTP response of the last non-streaming outcome
    phase,              \* where the streaming exchange stands
    fullModelName,      \* streaming handler: the resolved model
    lastFinishReason,   \* streaming handler: local lastFinishReason
    received,           \* events stream.Recv has returned on this stream
    unflushed,          \* NDJSON records written to the response writer and
                        \* not flushed yet
    out,                \* NDJSON records flushed to the client on this stream
    race                \* a refresh and a resolution running in two requests
                        \* at once, step by step (SpecRace only)

vars == <<modelNames, modelFilter, call, resp, phase, fullModelName,
          lastFinishReason, received, unflushed, out, race>>

\* The memory a method or handler reads.
Proc == [modelNames |-> modelNames, modelFilter |-> modelFilter]


(***************************************************************************)
(* provider.go: the model catalog and the resolver.                        *)
(***************************************************************************)
\* The synthesized catalog entry of one provider model.
Model(id) ==
    [Name   |-> LastSegment(id),
     Model  |-> LastSegment(id),
     Size   |-> 0,
     Digest |-> LastSegment(id),
     Details |-> [ParentModel |-> "", Format |-> "gguf", Family |-> "claude",
                  ParameterSize |-> "175B", QuantizationLevel |-> "Q4_K_M"]]

\* GetModels, given the answer of the provider's listing endpoint: the
\* registry it leaves, the entries it returns and its error.
\* Variant: the entries of the answer are appended to the registry as it was.
GetModels_Merge(p, listed) ==
    IF listed.err
    THEN [modelNames |-> p.modelNames, models |-> <<>>, err |-> TRUE]
    ELSE [modelNames |-> p.modelNames \o listed.models,
          models     |-> [i \in 1..Len(listed.models) |-> Model(listed.models[i])],
          err        |-> FALSE]

\* Variant: the registry is emptied before the listing endpoint is called.
GetModels_ResetFirst(p, listed) ==
    IF listed.err
    THEN [modelNames |-> <<>>, models |-> <<>>, err |-> TRUE]
    ELSE [modelNames |-> listed.models,
          models     |-> [i \in 1..Len(listed.models) |-> Model(listed.models[i])],
          err        |-> FALSE]

GetModels(p, listed) ==
    IF listed.err
    THEN [modelNames |-> p.modelNames, models |-> <<>>, err |-> TRUE]
    ELSE [modelNames |-> listed.models,
          models     |-> [i \in 1..Len(listed.models) |-> Model(listed.models[i])],
          err        |-> FALSE]

\* Variant: the registry is fetched at every resolution.
LazyRefresh_Always(p, listed) == GetModels(p, listed)

\* The start of GetFullModelName: the registry is fetched when it is found
\* empty, and only then.
LazyRefresh(p, listed) ==
    IF Len(p.modelNames) = 0
    THEN GetModels(p, listed)
    ELSE [modelNames |-> p.modelNames, models |-> <<>>, err |-> FALSE]

\* Variant: the suffix loop runs before the equality loop.
MatchName_SuffixFirst(names, alias) ==
    LET exact  == FirstIndex({ i \in 1..Len(names) : names[i] = alias })
        suffix == FirstIndex({ i \in 1..Len(names) : HasSuffix(names[i], alias) })
    IN  IF suffix # 0 THEN names[suffix]
        ELSE IF exact # 0 THEN names[exact]
        ELSE alias

\* Variant: the suffix loop keeps its last hit instead of returning at the
\* first.
MatchName_LastSuffix(names, alias) ==
    LET exact == FirstIndex({ i \in 1..Len(names) : names[i] = alias })
        hits  == { i \in 1..Len(names) : HasSuffix(names[i], alias) }
    IN  IF exact # 0 THEN names[exact]
        ELSE IF hits # {}
             THEN names[CHOOSE i \in hits : \A j \in hits : j <= i]
        ELSE alias

\* Variant: an alias that matches nothing gives the empty name.
MatchName_NoMatchEmpty(names, alias) ==
    LET exact  == FirstIndex({ i \in 1..Len(names) : names[i] = alias })
        suffix == FirstIndex({ i \in 1..Len(names) : HasSuffix(names[i], alias) })
    IN  IF exact # 0 THEN names[exact]
        ELSE IF suffix # 0 THEN names[suffix]
        ELSE <<>>

\* The two loops of GetFullModelName over the registry and its last return:
\* the first entry equal to the alias, else the first entry the alias is a
\* suffix of, else the alias.
MatchName(names, alias) ==
    LET exact  == FirstIndex({ i \in 1..Len(names) : names[i] = alias })
        suffix == FirstIndex({ i \in 1..Len(names) : HasSuffix(names[i], alias) })
    IN  IF exact # 0 THEN names[exact]
        ELSE IF suffix # 0 THEN names[suffix]
        ELSE alias

\* Variant: a failed fetch is ignored and the alias is matched against the
\* registry as it is.
GetFullModelName_SwallowError(p, alias, listed) ==
    LET got == LazyRefresh(p, listed)
    IN  [modelNames |-> got.modelNames,
         name       |-> MatchName(got.modelNames, alias),
         err        |-> FALSE,
         fetched    |-> Len(p.modelNames) = 0]

\* Variant: only the entries the filter admits are matched.
GetFullModelName_Filtered(p, alias, listed) ==
    LET got   == LazyRefresh(p, listed)
        admit == SelectSeq(got.modelNames,
                    LAMBDA fullName : p.modelFilter = {}
                                        \/ LastSegment(fullName) \in p.modelFilter)
    IN  IF got.err
        THEN [modelNames |-> got.modelNames, name |-> <<>>, err |-> TRUE,
              fetched |-> Len(p.modelNames) = 0]
        ELSE [modelNames |-> got.modelNames,
              name       |-> MatchName(admit, alias),
              err        |-> FALSE,
              fetched    |-> Len(p.modelNames) = 0]

\* GetFullModelName: the registry it leaves, the name and error it returns,
\* and whether it called the listing endpoint.
GetFullModelName(p, alias, listed) ==
    LET got == LazyRefresh(p, listed)
    IN  IF got.err
        THEN [modelNames |-> got.modelNames, name |-> <<>>, err |-> TRUE,
              fetched |-> Len(p.modelNames) = 0]
        ELSE [modelNames |-> got.modelNames,
              name       |-> MatchName(got.modelNames, alias),
              err        |-> FALSE,
              fetched    |-> Len(p.modelNames) = 0]

(***************************************************************************)
(* main.go: GET /api/tags.                                                 *)
(***************************************************************************)
\* The entry of the listing made from one catalog entry.
TagsEntry(m) ==
    [name |-> m.Name, model |-> m.Model, size |-> 270898672, details |-> m.Details]

\* Variant: the filter is not applied.
TagsListing_Unfiltered(p, models) ==
    [i \in 1..Len(models) |-> TagsEntry(models[i])]

\* The loop over the catalog entries: an entry is skipped when the filter is
\* not empty and does not hold the entry's Model field.
TagsListing(p, models) ==
    LET kept == SelectSeq(models,
                    LAMBDA m : ~ (Cardinality(p.modelFilter) > 0
                                    /\ m.Model \notin p.modelFilter))
    IN  [i \in 1..Len(kept) |-> TagsEntry(kept[i])]

\* The response of a handler that answers with one JSON object.
ErrorResp(status) == [status |-> status, kind |-> "error"]

\* The answer recorded for a request that did not call the chat endpoint.
NoChat == [err |-> FALSE, Choices |-> <<>>, Usage |-> "not called"]

\* No request served yet.  The record of a request holds its kind, the
\* alias it names, the registry at its entry (names0) and at its end
\* (names1), the listing answer it got, the name and error its resolution
\* returned, the model identifier it sent to the provider (sent, at most
\* one), the provider endpoints it called, in order (calls), the one that
\* failed (failed) and the answer of the chat endpoint (chat).
NoCall ==
    [kind |-> "none", alias |-> <<>>, names0 |-> <<>>, listed |-> NoList,
     names1 |-> <<>>, name |-> <<>>, err |-> FALSE, sent |-> <<>>,
     calls |-> <<>>, failed |-> "none", chat |-> NoChat]
NoResp == [status |-> 0, kind |-> "none"]

\* No refresh and no resolution running side by side.
NoRace == [on |-> FALSE]

\* A new request is taken when no streaming handler is running.
Ready == phase = "Idle"

\* The streaming handler's variables when no stream is under way.
StreamIdle ==
    /\ phase' = "Idle"
    /\ fullModelName' = <<>>
    /\ lastFinishReason' = ""
    /\ received' = <<>>
    /\ unflushed' = <<>>
    /\ out' = <<>>

\* Variant: a failed listing call is made a second time before the error is
\* answered.
Tags_RetryList(listed) ==
    LET got == GetModels(Proc, listed)
    IN  /\ Ready
        /\ modelNames' = got.modelNames
        /\ call' = [kind |-> "tags", alias |-> <<>>, names0 |-> modelNames,
                    listed |-> listed, names1 |-> got.modelNames,
                    name |-> <<>>, err |-> got.err, sent |-> <<>>,
                    calls |-> IF got.err THEN <<"list", "list">>
                              ELSE <<"list">>,
                    failed |-> IF got.err THEN "list" ELSE "none",
                    chat |-> NoChat]
        /\ resp' = IF got.err THEN ErrorResp(500)
                   ELSE [status |-> 200, kind |-> "tags",
                         models |-> TagsListing(Proc, got.models)]
        /\ StreamIdle
        /\ UNCHANGED <<modelFilter, race>>

\* GET /api/tags: the catalog is fetched, then listed through the filter.
Tags(listed) ==
    LET got == GetModels(Proc, listed)
    IN  /\ Ready
        /\ modelNames' = got.modelNames
        /\ call' = [kind |-> "tags", alias |-> <<>>, names0 |-> modelNames,
                    listed |-> listed, names1 |-> got.modelNames,
                    name |-> <<>>, err |-> got.err, sent |-> <<>>,
                    calls |-> <<"list">>,
                    failed |-> IF got.err THEN "list" ELSE "none",
                    chat |-> NoChat]
        /\ resp' = IF got.err THEN ErrorResp(500)
                   ELSE [status |-> 200, kind |-> "tags",
                         models |-> TagsListing(Proc, got.models)]
        /\ StreamIdle
        /\ UNCHANGED <<modelFilter, race>>

(***************************************************************************)
(* main.go: POST /api/show.                                                *)
(***************************************************************************)
\* The bodies of a show request: one that does not bind to a map of strings,
\* or the values of its "name" and "model" keys (empty when absent).
ShowBodies ==
    { [bad |-> TRUE, name |-> <<>>, model |-> <<>>] }
        \cup { [bad |-> FALSE, name |-> n, model |-> m] :
                 n \in {<<>>, IdA}, m \in {<<>>, IdXA} }

\* GetModelDetails: fixed metadata, whatever the model, and no error.
GetModelDetails(modelName) ==
    [license |-> "STUB License", system |-> "STUB SYSTEM",
     details |-> [format |-> "gguf", parameter_size |-> "200B",
                  quantization_level |-> "Q4_K_M"],
     model_info |-> [architecture |-> "STUB", context_length |-> 200000],
     capabilities |-> <<"completion", "tools", "insert">>]

Show(body) ==
    LET modelName == IF body.name # <<>> THEN body.name ELSE body.model
    IN  /\ Ready
        /\ call' = [NoCall EXCEPT
                        !.kind = IF body.bad THEN "show-badjson" ELSE "show",
                        !.alias = modelName,
                        !.names0 = modelNames, !.names1 = modelNames]
        /\ resp' = IF body.bad THEN ErrorResp(400)
                   ELSE IF modelName = <<>> THEN ErrorResp(400)
                   ELSE [status |-> 200, kind |-> "show",
                         details |-> GetModelDetails(modelName)]
        /\ StreamIdle
        /\ UNCHANGED <<race, modelNames, modelFilter>>

(***************************************************************************)
(* main.go: POST /api/chat, non-streaming.                                 *)
(***************************************************************************)
Choice(content, finish) == [Content |-> content, FinishReason |-> finish]

\* What the provider's chat-completion endpoint can answer to a
\* non-streaming call: an error, or choices with the usage counts.
ChatResults ==
    { [err |-> TRUE, Choices |-> <<>>,
       Usage |-> [PromptTokens |-> 0, CompletionTokens |-> 0, TotalTokens |-> 0]],
      [err |-> FALSE, Choices |-> <<>>,
       Usage |-> [PromptTokens |-> 2, CompletionTokens |-> 0, TotalTokens |-> 2]],
      [err |-> FALSE, Choices |-> <<Choice("hello", "")>>,
       Usage |-> [PromptTokens |-> 2, CompletionTokens |-> 3, TotalTokens |-> 5]],
      [err |-> FALSE, Choices |-> <<Choice("", "length"), Choice("hello", "stop")>>,
       Usage |-> [PromptTokens |-> 2, CompletionTokens |-> 1, TotalTokens |-> 3]] }

\* Variant: the last choice is mapped instead of the first.
OllamaResponse_LastChoice(model, response) ==
    LET last == response.Choices[Len(response.Choices)]
    IN  [status            |-> 200,
         kind              |-> "chat",
         model             |-> model,
         content           |-> last.Content,
         done              |-> TRUE,
         finish_reason     |-> IF last.FinishReason # ""
                               THEN last.FinishReason ELSE "stop",
         total_duration    |-> response.Usage.TotalTokens * 10,
         load_duration     |-> 0,
         prompt_eval_count |-> response.Usage.PromptTokens,
         eval_count        |-> response.Usage.CompletionTokens,
         eval_duration     |-> response.Usage.CompletionTokens * 10]

\* The Ollama response object made from a provider response with a choice.
OllamaResponse(model, response) ==
    [status            |-> 200,
     kind              |-> "chat",
     model             |-> model,
     content           |-> IF Len(response.Choices) > 0
                              /\ response.Choices[1].Content # ""
                           THEN response.Choices[1].Content ELSE "",
     done              |-> TRUE,
     finish_reason     |-> IF response.Choices[1].FinishReason # ""
                           THEN response.Choices[1].FinishReason ELSE "stop",
     total_duration    |-> response.Usage.TotalTokens * 10,
     load_duration     |-> 0,
     prompt_eval_count |-> response.Usage.PromptTokens,
     eval_count        |-> response.Usage.CompletionTokens,
     eval_duration     |-> response.Usage.CompletionTokens * 10]

\* What a resolution leaves in the record of the request.
Resolved(kind, alias, listed, r, sent) ==
    [kind |-> kind, alias |-> alias, names0 |-> modelNames,
     listed |-> IF r.fetched THEN listed ELSE NoList,
     names1 |-> r.modelNames, name |-> r.name, err |-> r.err, sent |-> sent,
     calls |-> IF r.fetched THEN <<"list">> ELSE <<>>,
     failed |-> IF r.err THEN "list" ELSE "none",
     chat |-> NoChat]

\* The body does not bind to the request structure.
ChatBadJSON ==
    /\ Ready
    /\ call' = [NoCall EXCEPT !.kind = "badjson", !.names0 = modelNames,
                               !.names1 = modelNames]
    /\ resp' = ErrorResp(400)
    /\ StreamIdle
    /\ UNCHANGED <<race, modelNames, modelFilter>>

\* Variant: a provider response without choices is mapped like any other,
\* with empty content and the default finish reason.
ChatNonStream_NoEmptyCheck(alias, listed, response) ==
    LET r == GetFullModelName(Proc, alias, listed)
    IN  /\ Ready
        /\ modelNames' = r.modelNames
        /\ call' = IF r.err THEN Resolved("chat", alias, listed, r, <<>>)
                   ELSE LET c == Resolved("chat", alias, listed, r, <<r.name>>)
                        IN  [c EXCEPT !.calls = Append(c.calls, "chat"),
                                      !.failed = IF response.err THEN "chat"
                                                 ELSE "none",
                                      !.chat = response]
        /\ resp' = IF r.err THEN ErrorResp(404)
                   ELSE IF response.err THEN ErrorResp(500)
                   ELSE IF Len(response.Choices) = 0
                        THEN [status |-> 200, kind |-> "chat", model |-> r.name,
                              content |-> "", done |-> TRUE,
                              finish_reason |-> "stop"]
                   ELSE OllamaResponse(r.name, response)
        /\ StreamIdle
        /\ UNCHANGED <<modelFilter, race>>

\* "stream": false.
ChatNonStream(alias, listed, response) ==
    LET r == GetFullModelName(Proc, alias, listed)
    IN  /\ Ready
        /\ modelNames' = r.modelNames
        /\ call' = IF r.err THEN Resolved("chat", alias, listed, r, <<>>)
                   ELSE LET c == Resolved("chat", alias, listed, r, <<r.name>>)
                        IN  [c EXCEPT !.calls = Append(c.calls, "chat"),
                                      !.failed = IF response.err THEN "chat"
                                                 ELSE "none",
                                      !.chat = response]
        /\ resp' = IF r.err THEN ErrorResp(404)
                   ELSE IF response.err THEN ErrorResp(500)
                   ELSE IF Len(response.Choices) = 0 THEN ErrorResp(500)
                   ELSE OllamaResponse(r.name, response)
        /\ StreamIdle
        /\ UNCHANGED <<modelFilter, race>>

(***************************************************************************)
(* main.go: POST /api/chat, streaming.                                     *)
(***************************************************************************)
\* The events a provider stream can deliver.
Events ==
    { [Choices |-> <<>>],
      [Choices |-> <<Choice("He", "")>>],
      [Choices |-> <<Choice("llo", "length")>>],
      [Choices |-> <<Choice("", "stop")>>] }

\* The record written for one event.
ChunkRecord(model, response) ==
    [model |-> model, role |-> "assistant",
     content |-> response.Choices[1].Content, done |-> FALSE]

\* The record written when the provider stream fails.
ErrorRecord == [error |-> "Stream error"]

\* The record written after the end of the provider stream.
FinalRecord(model, finish) ==
    [model |-> model, role |-> "assistant", content |-> "", done |-> TRUE,
     finish_reason |-> finish, total_duration |-> 0, load_duration |-> 0,
     prompt_eval_count |-> 0, eval_count |-> 0, eval_duration |-> 0]

\* Variant: the first finish reason seen is kept instead of the latest.
NextFinishReason_KeepFirst(last, response) ==
    IF last = "" /\ Len(response.Choices) > 0
    THEN response.Choices[1].FinishReason
    ELSE last

\* lastFinishReason after one event.
NextFinishReason(last, response) ==
    IF Len(response.Choices) > 0 /\ response.Choices[1].FinishReason # ""
    THEN response.Choices[1].FinishReason
    ELSE last

\* The finish reason of the final record.
FinalFinishReason(last) == IF last = "" THEN "stop" ELSE last

\* "stream" absent or true: resolution and creation of the provider stream.
ChatStreamStart(alias, listed, created) ==
    LET r == GetFullModelName(Proc, alias, listed)
    IN  /\ Ready
        /\ modelNames' = r.modelNames
        /\ call' = IF r.err THEN Resolved("stream", alias, listed, r, <<>>)
                   ELSE LET c == Resolved("stream", alias, listed, r, <<r.name>>)
                        IN  [c EXCEPT !.calls = Append(c.calls, "stream"),
                                      !.failed = IF created THEN "none"
                                                 ELSE "stream"]
        /\ resp' = IF r.err THEN ErrorResp(404)
                   ELSE IF ~ created THEN ErrorResp(500)
                   ELSE NoResp
        /\ phase' = IF r.err \/ ~ created THEN "Idle" ELSE "Streaming"
        /\ fullModelName' = IF r.err \/ ~ created THEN <<>> ELSE r.name
        /\ lastFinishReason' = ""
        /\ received' = <<>>
        /\ unflushed' = <<>>
        /\ out' = <<>>
        /\ UNCHANGED <<modelFilter, race>>

\* Variant: an event is written only when its delta content is not empty.
StreamRecv_SkipEmpty(response) ==
    /\ phase = "Streaming"
    /\ Len(received) < MaxEvents
    /\ received' = Append(received, response)
    /\ lastFinishReason' = NextFinishReason(lastFinishReason, response)
    /\ IF Len(response.Choices) = 0
       THEN phase' = "Panicked" /\ out' = out
       ELSE phase' = phase
            /\ out' = IF response.Choices[1].Content # ""
                      THEN Append(out, ChunkRecord(fullModelName, response))
                      ELSE out
    /\ unflushed' = unflushed
    /\ UNCHANGED <<race, modelNames, modelFilter, call, resp, fullModelName>>

\* Variant: the record of an event is written and not flushed.
StreamRecv_NoFlush(response) ==
    /\ phase = "Streaming"
    /\ Len(received) < MaxEvents
    /\ received' = Append(received, response)
    /\ lastFinishReason' = NextFinishReason(lastFinishReason, response)
    /\ IF Len(response.Choices) = 0
       THEN phase' = "Panicked" /\ unflushed' = unflushed
       ELSE phase' = phase
            /\ unflushed' = Append(unflushed,
                                   ChunkRecord(fullModelName, response))
    /\ out' = out
    /\ UNCHANGED <<race, modelNames, modelFilter, call, resp, fullModelName>>

\* stream.Recv returns an event.  An event without choices ends the handler
\* at the read of its first choice: nothing more is written.
StreamRecv(response) ==
    /\ phase = "Streaming"
    /\ Len(received) < MaxEvents
    /\ received' = Append(received, response)
    /\ lastFinishReason' = NextFinishReason(lastFinishReason, response)
    /\ IF Len(response.Choices) = 0
       THEN phase' = "Panicked" /\ out' = out /\ unflushed' = unflushed
       ELSE phase' = phase
            /\ out' = out \o Append(unflushed,
                                     ChunkRecord(fullModelName, response))
            /\ unflushed' = <<>>
    /\ UNCHANGED <<race, modelNames, modelFilter, call, resp, fullModelName>>

\* stream.Recv returns io.EOF.
StreamEOF ==
    /\ phase = "Streaming"
    /\ phase' = "Terminated"
    /\ lastFinishReason' = FinalFinishReason(lastFinishReason)
    /\ out' = out \o Append(unflushed,
                             FinalRecord(fullModelName, lastFinishReason'))
    /\ unflushed' = <<>>
    /\ UNCHANGED <<race, modelNames, modelFilter, call, resp, fullModelName,
                   received>>

\* Variant: after the error record the handler goes on to the final record.
StreamError_FallsThrough ==
    /\ phase = "Streaming"
    /\ phase' = "Aborted"
    /\ out' = out \o <<ErrorRecord,
                        FinalRecord(fullModelName,
                                    FinalFinishReason(lastFinishReason))>>
    /\ unflushed' = unflushed
    /\ UNCHANGED <<race, modelNames, modelFilter, call, resp, fullModelName,
                   lastFinishReason, received>>

\* stream.Recv returns another error.
StreamError ==
    /\ phase = "Streaming"
    /\ phase' = "Aborted"
    /\ out' = out \o Append(unflushed, ErrorRecord)
    /\ unflushed' = <<>>
    /\ UNCHANGED <<race, modelNames, modelFilter, call, resp, fullModelName,
                   lastFinishReason, received>>

\* The streaming handler returns (and the deferred stream.Close runs): its
\* local variables are gone.
StreamClose ==
    /\ phase \in {"Terminated", "Aborted", "Panicked"}
    /\ StreamIdle
    /\ UNCHANGED <<race, modelNames, modelFilter, call, resp>>

(***************************************************************************)
(* The specification.                                                      *)
(***************************************************************************)
Init ==
    /\ modelNames = <<>>
    /\ modelFilter \in FilterSets
    /\ call = NoCall
    /\ resp = NoResp
    /\ phase = "Idle"
    /\ fullModelName = <<>>
    /\ lastFinishReason = ""
    /\ received = <<>>
    /\ unflushed = <<>>
    /\ out = <<>>
    /\ race = NoRace

Next ==
    \/ \E listed \in ListResults : Tags(listed)
    \/ \E body \in ShowBodies : Show(body)
    \/ ChatBadJSON
    \/ \E alias \in Aliases, listed \in ListAnswers(modelNames),
          response \in ChatResults :
          ChatNonStream(alias, listed, response)
    \/ \E alias \in Aliases, listed \in ListAnswers(modelNames),
          created \in BOOLEAN :
          ChatStreamStart(alias, listed, created)
    \/ \E response \in Events : StreamRecv(response)
    \/ StreamEOF
    \/ StreamError
    \/ StreamClose

Spec == Init /\ [][Next]_vars

(***************************************************************************)
(* A refresh and a resolution side by side.                                *)
(*                                                                         *)
(* Two requests run in two goroutines of the HTTP server and share the     *)
(* provider object without a lock.  One (GET /api/tags) is in GetModels    *)
(* after the provider has answered with a list; the other (POST /api/chat) *)
(* is entering GetFullModelName.  Each step is one access to               *)
(* o.modelNames: the assignment of the empty slice, one append, the read   *)
(* of the length, the read of the slice at the head of a for-range loop.   *)
(* The reads see a value the registry held at that moment; a slice header  *)
(* read while it is being written is not modelled.                         *)
(***************************************************************************)
Registries == SeqsUpTo(ModelIds, MaxModels)

\* The snapshot of a loop that has not run.
NotRead == << <<"not read">> >>

RaceFrame ==
    UNCHANGED <<modelFilter, call, resp, phase, fullModelName,
                lastFinishReason, received, unflushed, out>>

RaceInit ==
    /\ modelNames \in Registries
    /\ modelFilter = {}
    /\ call = NoCall
    /\ resp = NoResp
    /\ phase = "Idle"
    /\ fullModelName = <<>>
    /\ lastFinishReason = ""
    /\ received = <<>>
    /\ unflushed = <<>>
    /\ out = <<>>
    /\ \E list \in Registries, alias \in Aliases :
          race = [on |-> TRUE,
                  before |-> modelNames,   \* the registry before the refresh
                  list |-> list,           \* the provider's list of the refresh
                  rpc |-> "reset",         \* where GetModels stands
                  k |-> 0,                 \* entries it has appended
                  alias |-> alias,         \* the alias to resolve
                  gpc |-> "len",           \* where GetFullModelName stands
                  own |-> <<>>,            \* the list of its own fetch
                  j |-> 0,                 \* entries its own fetch appended
                  sawEmpty |-> FALSE,      \* it found the registry empty
                  s1 |-> NotRead,          \* the slice the equality loop ranges over
                  s2 |-> NotRead,          \* the slice the suffix loop ranges over
                  name |-> <<>>, err |-> FALSE]

\* GetModels: o.modelNames = []string{}
RaceReset ==
    /\ race.on /\ race.rpc = "reset"
    /\ modelNames' = <<>>
    /\ race' = [race EXCEPT !.rpc = IF Len(race.list) = 0 THEN "done"
                                    ELSE "append"]
    /\ RaceFrame

\* GetModels: o.modelNames = append(o.modelNames, apiModel.ID)
RaceAppend ==
    /\ race.on /\ race.rpc = "append"
    /\ modelNames' = Append(modelNames, race.list[race.k + 1])
    /\ race' = [race EXCEPT !.k = race.k + 1,
                            !.rpc = IF race.k + 1 = Len(race.list) THEN "done"
                                    ELSE "append"]
    /\ RaceFrame

\* GetFullModelName: if len(o.modelNames) == 0
RaceLen ==
    /\ race.on /\ race.gpc = "len"
    /\ race' = [race EXCEPT !.sawEmpty = (Len(modelNames) = 0),
                            !.gpc = IF Len(modelNames) = 0 THEN "fetch"
                                    ELSE "loop1"]
    /\ UNCHANGED modelNames
    /\ RaceFrame

\* GetFullModelName calls GetModels: the provider's answer.
RaceFetch(listed) ==
    /\ race.on /\ race.gpc = "fetch"
    /\ race' = IF listed.err
               THEN [race EXCEPT !.err = TRUE, !.gpc = "done"]
               ELSE [race EXCEPT !.own = listed.models, !.gpc = "ownreset"]
    /\ UNCHANGED modelNames
    /\ RaceFrame

\* The reset of the resolution's own GetModels.
RaceOwnReset ==
    /\ race.on /\ race.gpc = "ownreset"
    /\ modelNames' = <<>>
    /\ race' = [race EXCEPT !.gpc = IF Len(race.own) = 0 THEN "loop1"
                                    ELSE "ownappend"]
    /\ RaceFrame

\* One append of the resolution's own GetModels.
RaceOwnAppend ==
    /\ race.on /\ race.gpc = "ownappend"
    /\ modelNames' = Append(modelNames, race.own[race.j + 1])
    /\ race' = [race EXCEPT !.j = race.j + 1,
                            !.gpc = IF race.j + 1 = Len(race.own) THEN "loop1"
                                    ELSE "ownappend"]
    /\ RaceFrame

\* GetFullModelName: the equality loop over the slice read at its head.
RaceLoop1 ==
    LET exact == FirstIndex({ i \in 1..Len(modelNames) :
                               modelNames[i] = race.alias })
    IN  /\ race.on /\ race.gpc = "loop1"
        /\ race' = IF exact # 0
                   THEN [race EXCEPT !.s1 = modelNames,
                                     !.name = modelNames[exact],
                                     !.gpc = "done"]
                   ELSE [race EXCEPT !.s1 = modelNames, !.gpc = "loop2"]
        /\ UNCHANGED modelNames
        /\ RaceFrame

\* GetFullModelName: the suffix loop over the slice read at its head, and
\* the last return.
RaceLoop2 ==
    LET suffix == FirstIndex({ i \in 1..Len(modelNames) :
                                HasSuffix(modelNames[i], race.alias) })
    IN  /\ race.on /\ race.gpc = "loop2"
        /\ race' = [race EXCEPT !.s2 = modelNames,
                                !.name = IF suffix # 0 THEN modelNames[suffix]
                                         ELSE race.alias,
                                !.gpc = "done"]
        /\ UNCHANGED modelNames
        /\ RaceFrame

RaceNext ==
    \/ RaceReset
    \/ RaceAppend
    \/ RaceLen
    \/ \E listed \in ListResults : RaceFetch(listed)
    \/ RaceOwnReset
    \/ RaceOwnAppend
    \/ RaceLoop1
    \/ RaceLoop2

SpecRace == RaceInit /\ [][RaceNext]_vars

(***************************************************************************)
(* Properties of the streaming exchange.                                   *)
(***************************************************************************)
IsDone(r)  == "done" \in DOMAIN r /\ r.done
IsChunk(r) == "done" \in DOMAIN r /\ ~ r.done
IsError(r) == DOMAIN r = {"error"}

\* The events of this stream that have a first choice.
WithChoice == SelectSeq(received, LAMBDA e : Len(e.Choices) > 0)

\* The events of this stream whose delta content is not empty.
WithContent ==
    SelectSeq(received,
              LAMBDA e : Len(e.Choices) > 0 /\ e.Choices[1].Content # "")

\* The finish reason of the last event of this stream that carried one, and
\* "stop" when none did.
LastSeenReason ==
    LET carriers == { i \in 1..Len(received) :
                        /\ Len(received[i].Choices) > 0
                        /\ received[i].Choices[1].FinishReason # "" }
    IN  IF carriers = {} THEN "stop"
        ELSE LET last == CHOOSE i \in carriers : \A j \in carriers : j <= i
             IN  received[last].Choices[1].FinishReason

\* C1: when the handler of a stream has ended and the provider delivered no
\* error on that stream, exactly one record with done=true has been written,
\* it is the last record, its content is empty and its usage and timing
\* fields are all 0.
C1_OneTerminalRecord ==
    phase \in {"Terminated", "Panicked"} =>
        /\ Len(out) > 0
        /\ IsDone(out[Len(out)])
        /\ Cardinality({ i \in 1..Len(out) : IsDone(out[i]) }) = 1
        /\ out[Len(out)].content = ""
        /\ out[Len(out)].total_duration = 0
        /\ out[Len(out)].load_duration = 0
        /\ out[Len(out)].prompt_eval_count = 0
        /\ out[Len(out)].eval_count = 0
        /\ out[Len(out)].eval_duration = 0

\* C2: when the provider stream has failed after k events, the output is the
\* k records of those events followed by one record that holds only an error
\* field; no record has done=true; and the handler writes nothing more: its
\* next step is its return.
C2_ErrorRecordEndsStream ==
    /\ [](phase = "Aborted" =>
            /\ Len(out) = Len(received) + 1
            /\ IsError(out[Len(out)])
            /\ \A i \in 1..Len(received) :
                  /\ IsChunk(out[i])
                  /\ out[i].content = received[i].Choices[1].Content
            /\ \A i \in 1..Len(out) : ~ IsDone(out[i]))
    /\ [][phase = "Aborted" => phase' = "Idle"]_vars

\* One content delta, then the stream fails: two records.
C2_Witness ==
    /\ phase = "Aborted"
    /\ received = <<[Choices |-> <<Choice("He", "")>>]>>
    /\ Len(out) = 2
    /\ out[1].content = "He"
    /\ IsError(out[2])

\* C3 as stated: the records with done=false are as many as the events with
\* non-empty delta content.
C3_ChunkIffContent ==
    Len(SelectSeq(out, IsChunk)) = Len(WithContent)

\* C3 as amended: the records with done=false are, in order, one for every
\* event received that has a first choice, with that choice's delta content,
\* empty or not, and the resolved model; an event without choices writes
\* nothing.
C3_ChunkPerEvent ==
    LET chunks == SelectSeq(out, IsChunk)
    IN  /\ Len(chunks) = Len(WithChoice)
        /\ \A i \in 1..Len(chunks) :
              /\ chunks[i].content = WithChoice[i].Choices[1].Content
              /\ chunks[i].model = fullModelName

\* Two content deltas, an event with only the finish reason "stop", then the
\* end of the stream: four records, the third with empty content.
C3_Witness ==
    /\ phase = "Terminated"
    /\ received = <<[Choices |-> <<Choice("He", "")>>],
                    [Choices |-> <<Choice("llo", "length")>>],
                    [Choices |-> <<Choice("", "stop")>>]>>
    /\ Len(out) = 4
    /\ IsChunk(out[3]) /\ out[3].content = ""
    /\ IsDone(out[4])

\* C4: the finish_reason of a record with done=true is the finish reason of
\* the last event of this stream that carried one, "stop" when none did; the
\* recorded reason is empty when a stream starts.
C4_FinishReasonIsLastSeen ==
    /\ \A i \in 1..Len(out) :
          IsDone(out[i]) => out[i].finish_reason = LastSeenReason
    /\ (phase = "Streaming" /\ received = <<>>) => lastFinishReason = ""

\* A stream that carried "length" and then "stop" ends with "stop", after an
\* earlier request was served.
C4_Witness ==
    /\ phase = "Terminated"
    /\ received = <<[Choices |-> <<Choice("llo", "length")>>],
                    [Choices |-> <<Choice("", "stop")>>]>>
    /\ out[Len(out)].finish_reason = "stop"
    /\ call.names0 # <<>>

(***************************************************************************)
(* Properties of the resolver and of the listing.                          *)
(***************************************************************************)
\* The request served last went through GetFullModelName.
IsResolution == call.kind \in {"chat", "stream"}

ExactIn(names, alias)  == \E i \in 1..Len(names) : names[i] = alias
SuffixIn(names, alias) == \E i \in 1..Len(names) : HasSuffix(names[i], alias)

\* C5: an alias equal to an entry of the registry resolves to itself, without
\* error, whatever stands before that entry.
C5_ExactMatchFirst ==
    (IsResolution /\ ExactIn(call.names0, call.alias)) =>
        ~ call.err /\ call.name = call.alias

\* The alias stands second, behind an entry it is a proper suffix of.
C5_Witness ==
    /\ IsResolution
    /\ call.names0 = <<IdXA, IdA>>
    /\ call.alias = IdA
    /\ call.name = IdA

\* C6: an alias equal to no entry and a suffix of some resolves, without
\* error, to the entry of smallest index it is a suffix of.
C6_FirstSuffixMatch ==
    (IsResolution /\ ~ ExactIn(call.names0, call.alias)
                  /\ SuffixIn(call.names0, call.alias)) =>
        /\ ~ call.err
        /\ \E i \in 1..Len(call.names0) :
              /\ HasSuffix(call.names0[i], call.alias)
              /\ \A j \in 1..(i - 1) : ~ HasSuffix(call.names0[j], call.alias)
              /\ call.name = call.names0[i]

\* The alias is a suffix of both entries and equal to none.
C6_Witness ==
    /\ IsResolution
    /\ call.names0 = <<IdYA, IdXA>>
    /\ call.alias = <<"/", "a">>
    /\ call.name = IdYA

\* C7 as stated: an alias that is neither equal to nor a suffix of an entry
\* of the registry the call finds is returned unchanged.
C7_NoMatchUnchanged ==
    (IsResolution /\ ~ ExactIn(call.names0, call.alias)
                  /\ ~ SuffixIn(call.names0, call.alias)) =>
        ~ call.err /\ call.name = call.alias

\* C7 as amended: an alias that is neither equal to nor a suffix of an entry
\* of the registry the call matches against (the registry after the fetch
\* that an empty registry starts) is returned unchanged, unless that fetch
\* failed: then the call returns an error.
C7_NoMatchAfterRefresh ==
    (IsResolution /\ ~ ExactIn(call.names1, call.alias)
                  /\ ~ SuffixIn(call.names1, call.alias)) =>
        IF call.names0 = <<>> /\ call.listed.err
        THEN call.err
        ELSE ~ call.err /\ call.name = call.alias

\* The registry was empty, the fetch brought an entry the alias does not
\* match.
C7_Witness ==
    /\ IsResolution
    /\ call.names0 = <<>>
    /\ call.names1 = <<IdXA>>
    /\ call.alias = <<"c">>
    /\ call.name = <<"c">>

\* C8 as stated: resolution returns no error and /api/chat is not rejected
\* at the resolution step.
C8_ResolutionNeverErrors ==
    IsResolution => ~ call.err /\ resp.status # 404

\* C8 as amended: resolution returns an error exactly when it finds the
\* registry empty and the listing call it then makes fails; /api/chat then
\* answers 404 and sends nothing to the provider; in every other case the
\* resolved identifier is sent to the provider.
C8_ErrorsOnlyOnFailedFetch ==
    IsResolution =>
        /\ call.err <=> (call.names0 = <<>> /\ call.listed.err)
        /\ call.err => (resp.status = 404 /\ call.sent = <<>>)
        /\ ~ call.err => call.sent = <<call.name>>

\* A streaming request is rejected at the resolution step.
C8_Witness ==
    /\ call.kind = "stream"
    /\ call.names0 = <<>>
    /\ call.listed.err
    /\ call.err
    /\ resp.status = 404

\* The model fields of a listing.
ListedModels == [i \in 1..Len(resp.models) |-> resp.models[i].model]

\* The short names of the entries of a registry that are in a set.
ShortNames(names, admitted) ==
    LET kept == SelectSeq(names, LAMBDA id : id \in admitted)
    IN  [i \in 1..Len(kept) |-> LastSegment(kept[i])]

\* C9 as stated: the listing holds the entries of the registry whose full
\* identifier is in the filter, all of them when the filter is empty, in
\* registry order.
C9_ListingByFullId ==
    resp.kind = "tags" =>
        ListedModels =
            ShortNames(modelNames,
                       { id \in ModelIds :
                           modelFilter = {} \/ id \in modelFilter })

\* C9 as amended: when the provider's listing call succeeds, the registry is
\* the provider's list and the listing holds, in that order, the entries
\* whose short name (the last path segment of the identifier, which is the
\* listing's model field) is in the filter, all of them when the filter is
\* empty.
C9_ListingByShortName ==
    resp.kind = "tags" =>
        /\ modelNames = call.listed.models
        /\ ListedModels =
              ShortNames(modelNames,
                         { id \in ModelIds :
                             modelFilter = {}
                                \/ LastSegment(id) \in modelFilter })
        /\ \A i \in 1..Len(resp.models) :
              resp.models[i].name = resp.models[i].model

\* With a filter, the entry whose short name the filter lacks is left out.
C9_Witness ==
    /\ resp.kind = "tags"
    /\ modelFilter # {}
    /\ modelNames = <<IdYB, IdYA>>
    /\ ListedModels = << <<"a">> >>

\* C10: what a request leaves in the registry, what its resolution returns
\* and what it sends to the provider are what the same request gives under
\* every other filter.
C10_FilterNotInResolution ==
    \A f \in FilterSets :
        LET p == [modelNames |-> call.names0, modelFilter |-> f]
        IN  /\ IsResolution =>
                LET r == GetFullModelName(p, call.alias, call.listed)
                IN  /\ r.modelNames = call.names1
                    /\ r.name = call.name
                    /\ r.err = call.err
                    /\ call.sent = IF r.err THEN <<>> ELSE <<r.name>>
            /\ call.kind = "tags" =>
                GetModels(p, call.listed).modelNames = call.names1

\* A model the filtered listing leaves out is invoked by a streaming
\* request.
C10_Witness ==
    /\ modelFilter # {}
    /\ phase = "Streaming"
    /\ call.alias = <<"b">>
    /\ call.sent = <<IdYB>>
    /\ LastSegment(IdYB) \notin modelFilter

(***************************************************************************)
(* Properties of the non-streaming exchange.                               *)
(***************************************************************************)
\* The request served last called the provider's chat endpoint and got an
\* answer that is no error.
ChatAnswered ==
    /\ call.kind = "chat"
    /\ Len(call.calls) > 0
    /\ call.calls[Len(call.calls)] = "chat"
    /\ ~ call.chat.err

\* C11: when the provider's answer has a choice, the response has done=true,
\* its content is the first choice's content and its finish_reason is the
\* first choice's finish reason, "stop" when that is empty.
C11_FirstChoiceMapped ==
    (ChatAnswered /\ Len(call.chat.Choices) >= 1) =>
        /\ resp.status = 200
        /\ resp.done = TRUE
        /\ resp.content = call.chat.Choices[1].Content
        /\ resp.finish_reason =
              IF call.chat.Choices[1].FinishReason # ""
              THEN call.chat.Choices[1].FinishReason ELSE "stop"

\* One choice with content "hello" and no finish reason.
C11_Witness ==
    /\ ChatAnswered
    /\ call.chat.Choices = <<Choice("hello", "")>>
    /\ resp.content = "hello"
    /\ resp.finish_reason = "stop"
    /\ resp.done = TRUE

\* C12: when the provider's answer has no choice, the response is the error
\* response with status 500: no response object with done=true is made.
C12_EmptyResponseIs500 ==
    (ChatAnswered /\ Len(call.chat.Choices) = 0) =>
        /\ resp.status = 500
        /\ resp.kind = "error"
        /\ "done" \notin DOMAIN resp

\* The provider answers without error and without choices.
C12_Witness ==
    /\ ChatAnswered
    /\ call.chat.Choices = <<>>
    /\ call.failed = "none"
    /\ resp = ErrorResp(500)

(***************************************************************************)
(* Properties of the error responses.                                      *)
(***************************************************************************)
\* The request served last had a body that does not bind, or named no
\* model.
ClientInputError ==
    \/ call.kind \in {"badjson", "show-badjson"}
    \/ call.kind \in {"show", "chat", "stream"} /\ call.alias = <<>>

\* C13: a request with a malformed body or without a model is answered with
\* status 400 and calls no endpoint of the provider.
C13_ClientErrorIs400 ==
    ClientInputError => (resp.status = 400 /\ call.calls = <<>>)

\* The request served last called no endpoint of the provider twice, and
\* called none after the one that failed.
FailedOnce ==
    /\ \A i, j \in 1..Len(call.calls) : call.calls[i] = call.calls[j] => i = j
    /\ call.calls[Len(call.calls)] = call.failed

\* C14 as stated: a provider call that fails before any record of a stream
\* is written is answered with status 500 or 502, once, and is not made
\* again.
C14_UpstreamFailureIs5xx ==
    call.failed # "none" =>
        /\ resp.status \in {500, 502}
        /\ FailedOnce

\* C14 as amended: such a failure is answered with status 500, except the
\* failed fetch of the model list during a resolution, which is answered
\* with status 404; the response is the only one, no stream is started, and
\* no provider call is made twice or after the failed one.
C14_UpstreamFailureStatus ==
    call.failed # "none" =>
        /\ resp.kind = "error"
        /\ resp.status = IF call.failed = "list" /\ call.kind \in {"chat", "stream"}
                         THEN 404 ELSE 500
        /\ FailedOnce
        /\ phase = "Idle"
        /\ out = <<>>

\* The creation of the provider stream fails after a fetch of the list.
C14_Witness ==
    /\ call.kind = "stream"
    /\ call.calls = <<"list", "stream">>
    /\ call.failed = "stream"
    /\ resp = ErrorResp(500)

(***************************************************************************)
(* Properties of the registry.                                             *)
(***************************************************************************)
\* C15: a resolution that runs beside a refresh sees, at its length test
\* and at the head of each of its loops, the whole registry of before the
\* refresh or the whole registry of after it, and so resolves an alias that
\* is an entry of both to that entry.
C15_RefreshAtomic ==
    (race.on /\ race.gpc = "done") =>
        /\ ~ race.sawEmpty \/ <<>> \in {race.before, race.list}
        /\ race.s1 \in {NotRead, race.before, race.list}
        /\ race.s2 \in {NotRead, race.before, race.list}
        /\ (ExactIn(race.before, race.alias) /\ ExactIn(race.list, race.alias))
              => (~ race.err /\ race.name = race.alias)

\* The request served last called the provider's listing endpoint.
Fetched == \E i \in 1..Len(call.calls) : call.calls[i] = "list"

\* C16 as stated: a request that finds the registry not empty does not call
\* the listing endpoint and leaves the registry as it is.
C16_FetchOnlyWhenEmpty ==
    (call.kind # "none" /\ call.names0 # <<>>) =>
        (~ Fetched /\ call.names1 = call.names0)

\* C16 as amended: a resolution calls the listing endpoint exactly when it
\* finds the registry empty and otherwise leaves the registry as it is;
\* GET /api/tags calls the listing endpoint at every request, whatever the
\* registry holds, and on success rewrites the registry with the answer;
\* the other requests neither fetch nor write.
C16_LazyOnlyInResolution ==
    /\ IsResolution =>
          /\ Fetched <=> call.names0 = <<>>
          /\ call.names0 # <<>> => call.names1 = call.names0
    /\ call.kind = "tags" =>
          /\ call.calls = <<"list">>
          /\ call.listed \in ListResults
          /\ ~ call.listed.err => call.names1 = call.listed.models
    /\ call.kind \in {"show", "show-badjson", "badjson"} =>
          (~ Fetched /\ call.names1 = call.names0)
    /\ modelNames = call.names1

\* A resolution on a registry that is not empty calls only the chat
\* endpoint.
C16_Witness ==
    /\ call.kind = "chat"
    /\ call.names0 = <<IdXA>>
    /\ call.calls = <<"chat">>
    /\ modelNames = <<IdXA>>

(***************************************************************************)
(* Claims about flushing.                                                  *)
(***************************************************************************)
\* C17: at every point where the streaming handler is about to receive the
\* next provider event no record is written and not flushed, and the records
\* the client has got are the records of the events received so far, in the
\* order of these events; when the handler has ended, the error record or
\* the terminal record has reached the client too, after the records of the
\* events.
C17_FlushedBeforeNextRecv ==
    /\ unflushed = <<>>
    /\ phase = "Streaming" =>
          /\ Len(out) = Len(received)
          /\ \A i \in 1..Len(out) :
                out[i] = ChunkRecord(fullModelName, received[i])
    /\ phase \in {"Terminated", "Aborted"} =>
          /\ Len(out) = Len(received) + 1
          /\ \A i \in 1..Len(received) :
                out[i] = ChunkRecord(fullModelName, received[i])
          /\ IsDone(out[Len(out)]) \/ IsError(out[Len(out)])

\* The handler waits for a third event: the records of the first two have
\* reached the client.
C17_Witness ==
    /\ phase = "Streaming"
    /\ Len(received) = 2
    /\ Len(out) = 2
    /\ out[1] # out[2]
    /\ unflushed = <<>>

(***************************************************************************)
(* Claims about the refresh of the registry.                               *)
(***************************************************************************)
\* The request served last fetched the provider's list and got it.
Refreshed ==
    /\ call.kind # "none"
    /\ Fetched
    /\ call.listed \in ListResults
    /\ ~ call.listed.err

\* C18: after a request that fetched the provider's list with success, the
\* registry is the sequence of the identifiers the provider returned, in the
\* provider's order: no entry of the registry before the request is kept
\* unless the provider returned it.
C18_RefreshReplaces ==
    Refreshed =>
        /\ call.names1 = call.listed.models
        /\ modelNames = call.listed.models

\* A registry of two entries is replaced by a list of one other entry.
C18_Witness ==
    /\ call.kind = "tags"
    /\ call.names0 = <<IdA, IdXA>>
    /\ call.listed = [err |-> FALSE, models |-> <<IdYB>>]
    /\ modelNames = <<IdYB>>

\* C19 as stated: no received event makes the streaming handler fail; a
\* handler that has ended has written the terminal record or the error
\* record last.
C19_EveryEventProcessed ==
    /\ phase # "Panicked"
    /\ phase \in {"Terminated", "Aborted"} =>
          (Len(out) > 0 /\ (IsDone(out[Len(out)]) \/ IsError(out[Len(out)])))

\* The request served last called the listing endpoint and got an error.
RefreshFailed ==
    /\ call.kind # "none"
    /\ Fetched
    /\ call.listed \in ListResults
    /\ call.listed.err

\* C20: a request whose call of the listing endpoint fails leaves the
\* registry as it found it, and the failure is returned: GetModels and
\* GetFullModelName return an error, which the handler answers with an
\* error response.
C20_FailedRefreshKeepsRegistry ==
    RefreshFailed =>
        /\ call.names1 = call.names0
        /\ modelNames = call.names0
        /\ call.err
        /\ call.failed = "list"
        /\ resp.kind = "error"

\* A listing request on a registry of two entries fails.
C20_Witness ==
    /\ call.kind = "tags"
    /\ call.names0 = <<IdA, IdXA>>
    /\ call.listed.err
    /\ modelNames = <<IdA, IdXA>>
    /\ resp = ErrorResp(500)

==========================================================================
